---------------------------- MODULE Spec2Model ----------------------------
(***************************************************************************)
(* Model of the AI integrity checker: the text feature engine              *)
(* (src/lib/aiFeatures.ts), the calibration classifier, the /api/analyze   *)
(* request handler (src/app/api/analyze/route.ts) and the calibration      *)
(* page's profile store (src/unnamed/part_001).                            *)
(*                                                                         *)
(* Strings are sequences of one-character strings.  JavaScript numbers are *)
(* modelled as exact rationals <<n, d>> (d > 0, lowest terms); a distance  *)
(* is kept as the rational under its square root, and comparisons of       *)
(* differences of square roots are decided exactly.                        *)
(***************************************************************************)
EXTENDS Integers, Sequences, FiniteSets, TLC

VARIABLES
  text,         \* the document under analysis
  sensitivity,  \* the threshold the document is analysed with
  result,       \* the value returned by analyzeTextForAI, or NoResult
  probe,        \* classifier input: the document's feature vector
  human,        \* classifier input: human reference vector or Null
  ai,           \* classifier input: AI reference vector or Null
  verdict,      \* the latest value returned by classifyWithCalibration
  body,         \* the request body handed to POST /api/analyze
  response,     \* the response of the handler, or NoResult
  calls,        \* the core functions the handler invoked, in order
  storage,      \* localStorage: key -> stored string (or absent)
  humanText,    \* calibrate page: textarea of the human sample
  aiText,       \* calibrate page: textarea of the AI sample
  humanSaved,   \* calibrate page: React state humanSaved
  aiSaved,      \* calibrate page: React state aiSaved
  mounted,      \* calibrate page: the effect of the first render has run
  clock         \* Date.now()

analysisVars == << text, sensitivity, result >>
classifierVars == << probe, human, ai, verdict >>
routeVars == << body, response, calls >>
calibrateVars ==
  << storage, humanText, aiText, humanSaved, aiSaved, mounted, clock >>

vars == << analysisVars, classifierVars, routeVars, calibrateVars >>

\* null, and the absence of a value not yet computed, as records, so that
\* they compare with the records the functions return
Null == [null |-> TRUE]
NoResult == [none |-> TRUE]

-----------------------------------------------------------------------------
(* Exact arithmetic on JavaScript numbers.                                 *)

Abs(x) == IF x < 0 THEN -x ELSE x
Sign(x) == IF x < 0 THEN -1 ELSE IF x > 0 THEN 1 ELSE 0

RECURSIVE GCD(_, _)
GCD(a, b) == IF b = 0 THEN a ELSE GCD(b, a % b)

\* <<1, 0>> and <<-1, 0>> are Infinity and -Infinity, <<0, 0>> is NaN
NaN == << 0, 0 >>
IsNaN(a) == a = NaN

\* the number n / d in lowest terms (d >= 0)
R(n, d) ==
  IF d = 0 THEN << Sign(n), 0 >>
  ELSE LET g == GCD(Abs(n), d)
       IN  << n \div g, d \div g >>

Zero == << 0, 1 >>
One == << 1, 1 >>
Int2R(n) == << n, 1 >>

\* sums over the least common denominator (the greatest common divisor of
\* two zero denominators is 0: NaN and the infinities keep d = 0)
CommonDen(a, b) == IF a[2] = 0 \/ b[2] = 0 THEN 1 ELSE GCD(a[2], b[2])
RAdd(a, b) ==
  R(a[1] * (b[2] \div CommonDen(a, b)) + b[1] * (a[2] \div CommonDen(a, b)),
    (a[2] \div CommonDen(a, b)) * b[2])
RSub(a, b) ==
  R(a[1] * (b[2] \div CommonDen(a, b)) - b[1] * (a[2] \div CommonDen(a, b)),
    (a[2] \div CommonDen(a, b)) * b[2])
RNeg(a) == << -a[1], a[2] >>
RMul(a, b) == R(a[1] * b[1], a[2] * b[2])
RDiv(a, b) == IF b[1] >= 0 THEN R(a[1] * b[2], a[2] * b[1])
                           ELSE R(-(a[1] * b[2]), a[2] * (-b[1]))
\* a < b; every comparison with NaN is false
RLt(a, b) ==
  IF a[2] = 0 \/ b[2] = 0
    THEN /\ ~IsNaN(a) /\ ~IsNaN(b) /\ a # b
         /\ (a = << -1, 0 >> \/ b = << 1, 0 >>)
    ELSE LET g == GCD(a[2], b[2])
         IN  a[1] * (b[2] \div g) < b[1] * (a[2] \div g)
RLe(a, b) == RLt(a, b) \/ (a = b /\ ~IsNaN(a))
RGt(a, b) == RLt(b, a)
RGe(a, b) == RLe(b, a)
RAbs(a) == << Abs(a[1]), a[2] >>
\* Math.max and Math.min: NaN when an argument is NaN
RMax(a, b) == IF IsNaN(a) \/ IsNaN(b) THEN NaN ELSE IF RLt(a, b) THEN b ELSE a
RMin(a, b) == IF IsNaN(a) \/ IsNaN(b) THEN NaN ELSE IF RLt(b, a) THEN b ELSE a

RECURSIVE RSum(_)
RSum(s) == IF s = << >> THEN Zero ELSE RAdd(s[1], RSum(Tail(s)))

MaxInt(a, b) == IF a < b THEN b ELSE a

clamp01(x) == RMax(Zero, RMin(One, x))

-----------------------------------------------------------------------------
(* Characters and strings.                                                 *)

UpperCase == <<"A","B","C","D","E","F","G","H","I","J","K","L","M","N","O","P","Q","R","S","T","U","V","W","X","Y","Z">>
LowerCase == <<"a","b","c","d","e","f","g","h","i","j","k","l","m","n","o","p","q","r","s","t","u","v","w","x","y","z">>
Digits == {"0","1","2","3","4","5","6","7","8","9"}
Letters == {LowerCase[i] : i \in 1..26}
Capitals == {UpperCase[i] : i \in 1..26}

IsSpace(c) == c \in {" ", "\n", "\t", "\r"}
IsTerminator(c) == c \in {".", "!", "?"}

LowerOf == [c \in Capitals |-> LowerCase[CHOOSE i \in 1..26 : UpperCase[i] = c]]

toLowerCaseChar(c) == IF c \in Capitals THEN LowerOf[c] ELSE c

toLowerCase(s) == [i \in 1..Len(s) |-> toLowerCaseChar(s[i])]

\* the first position >= i of s that holds no white space (Len(s) + 1 if none)
SkipSpace(s, i) ==
  CHOOSE j \in i..(Len(s) + 1) :
    /\ j = Len(s) + 1 \/ ~IsSpace(s[j])
    /\ \A k \in i..(j - 1) : IsSpace(s[k])

\* the last position <= j of s that holds no white space (0 if none)
SkipSpaceBack(s, j) ==
  CHOOSE i \in 0..j :
    /\ i = 0 \/ ~IsSpace(s[i])
    /\ \A k \in (i + 1)..j : IsSpace(s[k])

trim(s) == SubSeq(s, SkipSpace(s, 1), SkipSpaceBack(s, Len(s)))

includes(s, p) ==
  \E i \in 1..(Len(s) - Len(p) + 1) :
    /\ s[i] = p[1]
    /\ SubSeq(s, i, i + Len(p) - 1) = p

-----------------------------------------------------------------------------
(* Sentence segmentation: text.matchAll(/[^.!?]+[.!?]+|\s*[^.!?]+$/g).     *)

\* the first position >= i of s that holds a terminator (Len(s) + 1 if none)
NonTerminatorRunEnd(s, i) ==
  CHOOSE j \in i..(Len(s) + 1) :
    /\ j = Len(s) + 1 \/ IsTerminator(s[j])
    /\ \A k \in i..(j - 1) : ~IsTerminator(s[k])

\* the first position >= i of s that holds no terminator (Len(s) + 1 if none)
TerminatorRunEnd(s, i) ==
  CHOOSE j \in i..(Len(s) + 1) :
    /\ j = Len(s) + 1 \/ ~IsTerminator(s[j])
    /\ \A k \in i..(j - 1) : IsTerminator(s[k])

\* The matches of the regex from position i (1-based) on, as [index, raw]
\* with the 0-based index of JavaScript.  At a terminator neither
\* alternative matches and the search moves on by one character.  Otherwise
\* the greedy run of non-terminators is followed by a terminator (first
\* alternative, which takes the whole run of terminators) or reaches the end
\* of the text (second alternative).
RECURSIVE matchAll(_, _)
matchAll(s, i) ==
  IF i > Len(s) THEN << >>
  ELSE IF IsTerminator(s[i]) THEN matchAll(s, i + 1)
  ELSE LET j == NonTerminatorRunEnd(s, i)
       IN  IF j <= Len(s)
             THEN LET k == TerminatorRunEnd(s, j)
                  IN  << [index |-> i - 1, raw |-> SubSeq(s, i, k - 1)] >>
                        \o matchAll(s, k)
             ELSE << [index |-> i - 1, raw |-> SubSeq(s, i, Len(s))] >>

\* the loop without its test of sentence.length
spansOf_keepsBlank(ms) ==
  [i \in 1..Len(ms) |->
     [sentence |-> trim(ms[i].raw), start |-> ms[i].index,
      end |-> ms[i].index + Len(ms[i].raw)]]

RECURSIVE spansOf(_)
spansOf(ms) ==
  IF ms = << >> THEN << >>
  ELSE LET m == ms[1]
           sentence == trim(m.raw)
       IN  (IF Len(sentence) > 0
              THEN << [sentence |-> sentence, start |-> m.index,
                       end |-> m.index + Len(m.raw)] >>
              ELSE << >>)
           \o spansOf(Tail(ms))

splitSentencesWithOffsets(s) == spansOf(matchAll(s, 1))

-----------------------------------------------------------------------------
(* Per-sentence features.                                                  *)

IsTokenChar(c) == c \in Letters \/ c \in Digits \/ c = "'"

\* the first position >= i of s that holds no token character
TokenEnd(s, i) ==
  CHOOSE j \in i..(Len(s) + 1) :
    /\ j = Len(s) + 1 \/ ~IsTokenChar(s[j])
    /\ \A k \in i..(j - 1) : IsTokenChar(s[k])

\* the positions of s, in order, at which a run of token characters starts
tokenStarts(s) ==
  LET starts(i) == IsTokenChar(s[i]) /\ (i = 1 \/ ~IsTokenChar(s[i - 1]))
  IN  SelectSeq([i \in 1..Len(s) |-> i], starts)

\* s.split(/[^a-z0-9']+/i).filter(Boolean): the maximal runs of token
\* characters
tokens(s) ==
  LET st == tokenStarts(s)
  IN  [k \in 1..Len(st) |-> SubSeq(s, st[k], TokenEnd(s, st[k]) - 1)]

words(s) == tokens(toLowerCase(s))

uniq(w) == {w[i] : i \in 1..Len(w)}

repetition(sentence) ==
  LET w == words(sentence)
  IN  RSub(One, R(Cardinality(uniq(w)), MaxInt(Len(w), 1)))

\* the diversity taken over the square of the number of words
vocabDiversity_squared(sentence) ==
  LET w == words(sentence)
  IN  R(Cardinality(uniq(w)), MaxInt(Len(w) * Len(w), 1))

vocabDiversity(sentence) ==
  LET w == words(sentence)
  IN  R(Cardinality(uniq(w)), MaxInt(Len(w), 1))

phrases ==
  << <<"i","n"," ","t","o","d","a","y","'","s"," ","w","o","r","l","d">>,
     <<"i","t"," ","i","s"," ","i","m","p","o","r","t","a","n","t"," ","t","o"," ","n","o","t","e">>,
     <<"t","h","i","s"," ","s","h","o","w","s"," ","t","h","a","t">>,
     <<"o","v","e","r","a","l","l">>,
     <<"i","n"," ","c","o","n","c","l","u","s","i","o","n">>,
     <<"a"," ","w","i","d","e"," ","r","a","n","g","e"," ","o","f">>,
     <<"p","l","a","y","s"," ","a"," ","c","r","u","c","i","a","l"," ","r","o","l","e">>,
     <<"s","i","g","n","i","f","i","c","a","n","t","l","y">>,
     <<"v","a","r","i","o","u","s">>,
     <<"m","o","r","e","o","v","e","r">>,
     <<"f","u","r","t","h","e","r","m","o","r","e">> >>

hasGenericPhrases(sentence) ==
  LET s == toLowerCase(sentence)
  IN  \E i \in 1..Len(phrases) : includes(s, phrases[i])

transitions ==
  << <<"m","o","r","e","o","v","e","r">>,
     <<"f","u","r","t","h","e","r","m","o","r","e">>,
     <<"a","d","d","i","t","i","o","n","a","l","l","y">>,
     <<"t","h","e","r","e","f","o","r","e">>,
     <<"h","o","w","e","v","e","r">>,
     <<"o","v","e","r","a","l","l">> >>

transitionDensity(sentence) ==
  LET s == toLowerCase(sentence)
      count == Cardinality({i \in 1..Len(transitions) : includes(s, transitions[i])})
  IN  RMin(R(count, 2), One)

-----------------------------------------------------------------------------
(* Sentence scorer.                                                        *)

ReasonFallback == "Pattern-based AI signal"

\* lines 96-101: the weighted combination of the five sub-features
rawScore(rep, vdiv, uniformLenSignal, generic, trans) ==
  RSum(<< RMul(R(125, 100), rep),
          RMul(R(110, 100), RSub(One, vdiv)),
          RMul(R(80, 100), uniformLenSignal),
          RMul(R(90, 100), Int2R(generic)),
          RMul(R(70, 100), trans) >>)

aiSentenceScore(sentence, avgLen) ==
  LET len == Int2R(Len(sentence))
      rep == repetition(sentence)
      vdiv == vocabDiversity(sentence)
      generic == IF hasGenericPhrases(sentence) THEN 1 ELSE 0
      trans == transitionDensity(sentence)
      lenNorm == clamp01(RDiv(RAbs(RSub(len, avgLen)), RMax(avgLen, One)))
      uniformLenSignal == RSub(One, lenNorm)
      raw == rawScore(rep, vdiv, uniformLenSignal, generic, trans)
      score == clamp01(RDiv(raw, R(45, 10)))
      reasons ==
        (IF RGt(rep, R(35, 100)) THEN << "Repetitive word patterns" >> ELSE << >>)
        \o (IF RLt(vdiv, R(55, 100)) THEN << "Low vocabulary diversity" >> ELSE << >>)
        \o (IF RGt(uniformLenSignal, R(8, 10))
              THEN << "Sentence length looks very uniform" >> ELSE << >>)
        \o (IF generic > 0 THEN << "Generic filler phrasing" >> ELSE << >>)
        \o (IF RGt(trans, R(5, 10)) THEN << "Heavy transition-word use" >> ELSE << >>)
  IN  [score |-> score, reasons |-> reasons, rep |-> rep, vdiv |-> vdiv,
       generic |-> generic, trans |-> trans,
       uniformLenSignal |-> uniformLenSignal]

-----------------------------------------------------------------------------
(* Document aggregator.  analyzeTextForAI is written as a chain of          *)
(* operators, one per group of statements, each taking the values computed *)
(* before it.                                                              *)

\* the mean without Math.max(.., 1) in its divisor
mean_unguarded(values) == RDiv(RSum(values), Int2R(Len(values)))

\* values.reduce((a, v) => a + v, 0) / Math.max(values.length, 1)
mean(values) == RDiv(RSum(values), Int2R(MaxInt(Len(values), 1)))

\* line 117-118: the mean length of the trimmed sentences
avgLenOf(sents) == mean([i \in 1..Len(sents) |-> Int2R(Len(sents[i].sentence))])

\* line 122: { ...s, ...r }
scoredSentence(s, r) ==
  [sentence |-> s.sentence, start |-> s.start, end |-> s.end,
   score |-> r.score, reasons |-> r.reasons, rep |-> r.rep, vdiv |-> r.vdiv,
   generic |-> r.generic, trans |-> r.trans,
   uniformLenSignal |-> r.uniformLenSignal]

\* lines 120-123: sents.map(s => ({...s, ...aiSentenceScore(s.sentence, avgLen)}))
scoreAll(sents, avgLen) ==
  [i \in 1..Len(sents) |->
     scoredSentence(sents[i], aiSentenceScore(sents[i].sentence, avgLen))]

\* the filter with its comparison inverted
flagged_inverted(scored, threshold) ==
  SelectSeq(scored, LAMBDA x : RLe(x.score, threshold))

\* line 126: scored.filter(x => x.score >= threshold)
flagged(scored, threshold) ==
  SelectSeq(scored, LAMBDA x : RGe(x.score, threshold))

\* the map without the fallback reason
toSignal_noFallback(x) ==
  [sentence |-> x.sentence, start |-> x.start, end |-> x.end,
   score |-> x.score, reasons |-> x.reasons]

\* lines 127-133: .map(x => ({sentence, start, end, score, reasons: ...}))
toSignal(x) ==
  [sentence |-> x.sentence, start |-> x.start, end |-> x.end,
   score |-> x.score,
   reasons |-> IF Len(x.reasons) > 0 THEN x.reasons ELSE << ReasonFallback >>]

signalsOf(hits) == [i \in 1..Len(hits) |-> toSignal(hits[i])]

\* lines 137-138
flaggedRatioOf(scored, aiSentenceSignals) ==
  RDiv(Int2R(Len(aiSentenceSignals)), Int2R(MaxInt(Len(scored), 1)))

\* the overall score taken from the first sentence alone
overallAiScoreOf_firstSentence(scored, flaggedRatio) ==
  clamp01(RAdd(RMul(R(65, 100),
                    IF Len(scored) = 0 THEN Zero ELSE scored[1].score),
               RMul(R(35, 100), flaggedRatio)))

\* lines 135-139
overallAiScoreOf(scored, flaggedRatio) ==
  clamp01(RAdd(RMul(R(65, 100), mean([i \in 1..Len(scored) |-> scored[i].score])),
               RMul(R(35, 100), flaggedRatio)))

\* lines 125-151: the flagged list, the overall score and the five means
aggregate(avgLen, scored, aiSentenceSignals) ==
  [avgLen |-> avgLen,
   scored |-> scored,
   aiSentenceSignals |-> aiSentenceSignals,
   flaggedRatio |-> flaggedRatioOf(scored, aiSentenceSignals),
   overallAiScore |->
     overallAiScoreOf(scored, flaggedRatioOf(scored, aiSentenceSignals)),
   avgRepetition |-> mean([i \in 1..Len(scored) |-> scored[i].rep]),
   avgVocabDiversity |-> mean([i \in 1..Len(scored) |-> scored[i].vdiv]),
   genericRate |->
     mean([i \in 1..Len(scored) |-> Int2R(IF scored[i].generic # 0 THEN 1 ELSE 0)]),
   transitionRate |-> mean([i \in 1..Len(scored) |-> scored[i].trans]),
   uniformity |-> mean([i \in 1..Len(scored) |-> scored[i].uniformLenSignal])]

scoredStats(avgLen, scored, threshold) ==
  aggregate(avgLen, scored, signalsOf(flagged(scored, threshold)))

sentenceStats(sents, avgLen, threshold) ==
  scoredStats(avgLen, scoreAll(sents, avgLen), threshold)

\* lines 116-151: everything analyzeTextForAI computes before it assembles
\* the value it returns
documentStats(t, threshold) ==
  sentenceStats(splitSentencesWithOffsets(t),
                avgLenOf(splitSentencesWithOffsets(t)), threshold)

\* the overall score returned as a percentage, as the pages display it
output_percent(d, threshold) ==
  [aiSentenceSignals |-> d.aiSentenceSignals,
   aiModel |->
     [overallAiScore |-> RMul(Int2R(100), d.overallAiScore),
      threshold |-> threshold,
      avgSentenceLength |-> d.avgLen,
      sentenceCount |-> Len(d.scored),
      features |->
        [avgRepetition |-> clamp01(d.avgRepetition),
         avgVocabDiversity |-> clamp01(d.avgVocabDiversity),
         genericRate |-> clamp01(d.genericRate),
         transitionRate |-> clamp01(d.transitionRate),
         uniformity |-> clamp01(d.uniformity)]]]

\* sentenceCount taken from the flagged list instead of from all sentences
output_countsFlagged(d, threshold) ==
  [aiSentenceSignals |-> d.aiSentenceSignals,
   aiModel |->
     [overallAiScore |-> d.overallAiScore,
      threshold |-> threshold,
      avgSentenceLength |-> d.avgLen,
      sentenceCount |-> Len(d.aiSentenceSignals),
      features |->
        [avgRepetition |-> clamp01(d.avgRepetition),
         avgVocabDiversity |-> clamp01(d.avgVocabDiversity),
         genericRate |-> clamp01(d.genericRate),
         transitionRate |-> clamp01(d.transitionRate),
         uniformity |-> clamp01(d.uniformity)]]]

\* lines 153-167: the returned value
output(d, threshold) ==
  [aiSentenceSignals |-> d.aiSentenceSignals,
   aiModel |->
     [overallAiScore |-> d.overallAiScore,
      threshold |-> threshold,
      avgSentenceLength |-> d.avgLen,
      sentenceCount |-> Len(d.scored),
      features |->
        [avgRepetition |-> clamp01(d.avgRepetition),
         avgVocabDiversity |-> clamp01(d.avgVocabDiversity),
         genericRate |-> clamp01(d.genericRate),
         transitionRate |-> clamp01(d.transitionRate),
         uniformity |-> clamp01(d.uniformity)]]]

analyzeTextForAI(t, threshold) == output(documentStats(t, threshold), threshold)

-----------------------------------------------------------------------------
(* The numbers of the means, as doubles.  The operators above compute with  *)
(* exact fractions; a JavaScript number is an IEEE-754 double, and each     *)
(* division, subtraction and addition rounds its exact result to Precision *)
(* significant bits, to nearest with ties to even.  A double that is not   *)
(* negative is kept as [bits, exp], the binary fraction 0.bits * 2^exp,    *)
(* bits being a sequence of 0 and 1 that neither starts nor ends with 0    *)
(* (empty for zero); the values here are far from the ends of the exponent *)
(* range, which is not modelled.                                            *)

Precision == 53

\* 0.bits * 2^exp without the leading and trailing zeros of bits
Dyadic(bits, exp) ==
  IF \A i \in 1..Len(bits) : bits[i] = 0 THEN [bits |-> << >>, exp |-> 0]
  ELSE LET first == CHOOSE i \in 1..Len(bits) :
                      bits[i] = 1 /\ \A j \in 1..(i - 1) : bits[j] = 0
           last == CHOOSE i \in 1..Len(bits) :
                     bits[i] = 1 /\ \A j \in (i + 1)..Len(bits) : bits[j] = 0
       IN  [bits |-> SubSeq(bits, first, last), exp |-> exp - (first - 1)]

\* The double nearest to the exact value x (ties to even); sticky says that
\* the exact value has further non-zero bits after those of x, all of them
\* after bit Precision + 1.
fl(x, sticky) ==
  LET b(i) == IF i <= Len(x.bits) THEN x.bits[i] ELSE 0
      rest == sticky \/ \E i \in (Precision + 2)..Len(x.bits) : x.bits[i] = 1
      up == b(Precision + 1) = 1 /\ (rest \/ b(Precision) = 1)
      head == [i \in 1..Precision |-> b(i)]
      zeros == {i \in 1..Precision : head[i] = 0}
      last0 == CHOOSE i \in zeros : \A j \in zeros : j <= i
  IN  IF x.bits = << >> \/ ~up THEN Dyadic(head, x.exp)
      ELSE IF zeros = {} THEN Dyadic(<< 1 >>, x.exp + 1)
      ELSE Dyadic([i \in 1..Precision |->
                     IF i < last0 THEN head[i] ELSE IF i = last0 THEN 1 ELSE 0],
                  x.exp)

\* the double of a small integer k >= 0
f64(k) == Dyadic([i \in 1..31 |-> (k \div 2^(31 - i)) % 2], 31)

\* a + b (the operands are bound to x and y, and the exact sum to s, so that
\* each is computed once)
f64add(a, b) ==
  CHOOSE r \in
    { LET e == IF x.exp >= y.exp THEN x.exp ELSE y.exp
          lox == x.exp - Len(x.bits)
          loy == y.exp - Len(y.bits)
          L == e - (IF lox <= loy THEN lox ELSE loy)
          X(i) == LET k == i - (e - x.exp)
                  IN  IF k >= 1 /\ k <= Len(x.bits) THEN x.bits[k] ELSE 0
          Y(i) == LET k == i - (e - y.exp)
                  IN  IF k >= 1 /\ k <= Len(y.bits) THEN y.bits[k] ELSE 0
          carry(i) == \E j \in (i + 1)..L :
                        /\ X(j) + Y(j) = 2
                        /\ \A k \in (i + 1)..(j - 1) : X(k) + Y(k) = 1
          c(i) == IF carry(i) THEN 1 ELSE 0
          sum == [i \in 1..(L + 1) |->
                    IF i = 1 THEN c(0) ELSE (X(i - 1) + Y(i - 1) + c(i - 1)) % 2]
      IN  IF x.bits = << >> THEN y
          ELSE IF y.bits = << >> THEN x
          ELSE CHOOSE v \in {fl(s, FALSE) : s \in {Dyadic(sum, e + 1)}} : TRUE
      : x \in {a}, y \in {b} } : TRUE

\* a - b, for a >= b
f64sub(a, b) ==
  CHOOSE r \in
    { LET e == IF x.exp >= y.exp THEN x.exp ELSE y.exp
          lox == x.exp - Len(x.bits)
          loy == y.exp - Len(y.bits)
          L == e - (IF lox <= loy THEN lox ELSE loy)
          X(i) == LET k == i - (e - x.exp)
                  IN  IF k >= 1 /\ k <= Len(x.bits) THEN x.bits[k] ELSE 0
          Y(i) == LET k == i - (e - y.exp)
                  IN  IF k >= 1 /\ k <= Len(y.bits) THEN y.bits[k] ELSE 0
          borrow(i) == \E j \in (i + 1)..L :
                         /\ X(j) < Y(j)
                         /\ \A k \in (i + 1)..(j - 1) : X(k) = Y(k)
          d(i) == IF borrow(i) THEN 1 ELSE 0
          diff == [i \in 1..L |-> (2 + X(i) - Y(i) - d(i)) % 2]
      IN  IF y.bits = << >> THEN x
          ELSE CHOOSE v \in {fl(s, FALSE) : s \in {Dyadic(diff, e)}} : TRUE
      : x \in {a}, y \in {b} } : TRUE

\* a / n for an integer n >= 1, by long division: the remainders are taken
\* eight bits at a time
f64div(a, n) ==
  CHOOSE r \in
    { LET L == Len(x.bits) + Precision + 2 + n
          X(i) == IF i >= 1 /\ i <= Len(x.bits) THEN x.bits[i] ELSE 0
          byte(k) == 128 * X(8 * k - 7) + 64 * X(8 * k - 6) + 32 * X(8 * k - 5)
                       + 16 * X(8 * k - 4) + 8 * X(8 * k - 3) + 4 * X(8 * k - 2)
                       + 2 * X(8 * k - 1) + X(8 * k)
          remBytes[k \in 0..(L \div 8)] ==
            IF k = 0 THEN 0 ELSE (256 * remBytes[k - 1] + byte(k)) % n
          rem(i) == ((2^(i % 8)) * remBytes[i \div 8]
                       + (byte(i \div 8 + 1) \div 2^(8 - (i % 8)))) % n
          q == [i \in 1..L |-> (2 * rem(i - 1) + X(i)) \div n]
      IN  CHOOSE v \in {fl(s, rem(L) # 0) : s \in {Dyadic(q, x.exp)}} : TRUE
      : x \in {a} } : TRUE

\* line 57: uniq.size / Math.max(w.length, 1)
vocabDiversity64(sentence) ==
  CHOOSE r \in {f64div(f64(Cardinality(uniq(w))), MaxInt(Len(w), 1)) :
                  w \in {words(sentence)}} : TRUE

\* line 51: 1 - uniq.size / Math.max(w.length, 1)
repetition64(sentence) == f64sub(f64(1), vocabDiversity64(sentence))

\* values.reduce((a, v) => a + v, 0) / Math.max(values.length, 1)
mean64(values) ==
  CHOOSE r \in
    { LET acc[i \in 0..Len(v)] ==
            IF i = 0 THEN f64(0) ELSE f64add(acc[i - 1], v[i])
      IN  f64div(acc[Len(v)], MaxInt(Len(v), 1))
      : v \in {values} } : TRUE

\* clamp01 of a double that is not negative
clamp01_64(x) ==
  CHOOSE r \in {IF v.exp >= 1 THEN f64(1) ELSE v : v \in {x}} : TRUE

\* lines 142-145 and 159-160: avgRepetition and avgVocabDiversity of the
\* text t as the doubles the code returns
features64(t) ==
  CHOOSE r \in
    { [avgRepetition |->
         clamp01_64(mean64([i \in 1..Len(sents) |->
                              repetition64(sents[i].sentence)])),
       avgVocabDiversity |->
         clamp01_64(mean64([i \in 1..Len(sents) |->
                              vocabDiversity64(sents[i].sentence)]))]
      : sents \in {splitSentencesWithOffsets(t)} } : TRUE

-----------------------------------------------------------------------------
(* Calibration classifier.  A distance is a square root, and the margin a  *)
(* difference of two square roots: the number k * (sqrt(hi) - sqrt(lo)) is *)
(* kept as [k, hi, lo] with k, hi, lo rational, k >= 0.                    *)

SNaN == [k |-> NaN, hi |-> NaN, lo |-> NaN]
SZero == [k |-> Zero, hi |-> Zero, lo |-> Zero]
SIsNaN(x) == IsNaN(x.k) \/ IsNaN(x.hi) \/ IsNaN(x.lo)

\* k * (sqrt(hi) - sqrt(lo)), with one form for NaN and one for 0
Surd(k, hi, lo) ==
  IF IsNaN(k) \/ IsNaN(hi) \/ IsNaN(lo) THEN SNaN
  ELSE IF k = Zero \/ hi = lo THEN SZero
  ELSE [k |-> k, hi |-> hi, lo |-> lo]

\* Math.sqrt(q), q >= 0
Sqrt(q) == IF RLt(q, Zero) THEN SNaN ELSE Surd(One, q, Zero)

\* sqrt(hi) - sqrt(lo) < c, decided by squaring
DiffLt(hi, lo, c) ==
  IF RGt(c, Zero)
    THEN LET e == RSub(RSub(hi, lo), RMul(c, c))
         IN  RLt(e, Zero) \/ RLt(RMul(e, e), RMul(RMul(Int2R(4), RMul(c, c)), lo))
    ELSE LET e == RSub(RSub(lo, hi), RMul(c, c))
         IN  RGt(e, Zero) /\ RGt(RMul(e, e), RMul(RMul(Int2R(4), RMul(c, c)), hi))

\* x < c and x > c for a rational c; false when x is NaN
SLt(x, c) == ~SIsNaN(x) /\ (IF x = SZero THEN RLt(Zero, c)
                             ELSE DiffLt(x.hi, x.lo, RDiv(c, x.k)))
SGt(x, c) == ~SIsNaN(x) /\ (IF x = SZero THEN RLt(c, Zero)
                             ELSE DiffLt(x.lo, x.hi, RNeg(RDiv(c, x.k))))

\* a - b for two square roots a = sqrt(p) and b = sqrt(q)
SSub(a, b) == IF SIsNaN(a) \/ SIsNaN(b) THEN SNaN ELSE Surd(One, a.hi, b.hi)

\* Math.abs(x)
SAbs(x) == IF ~SIsNaN(x) /\ RLt(x.hi, x.lo) THEN Surd(x.k, x.lo, x.hi) ELSE x

\* x / c for a rational c > 0
SDiv(x, c) == IF SIsNaN(x) THEN SNaN ELSE Surd(RDiv(x.k, c), x.hi, x.lo)

\* Math.max(0, Math.min(1, x))
clamp01S(x) ==
  IF SIsNaN(x) THEN SNaN
  ELSE IF ~SLt(x, One) THEN Sqrt(One)
  ELSE IF ~SGt(x, Zero) THEN SZero
  ELSE x

\* JavaScript values other than the records above: each kind is a record
\* with a field of its own, so that values of different kinds compare
Undefined == [undefined |-> TRUE]
JsNumber(n) == [number |-> n]
JsString(str) == [string |-> str]
JsBoolean(b) == [boolean |-> b]
JsArray(elements) == [array |-> elements]

\* an exception that leaves a function in place of a returned value
Threw(name) == [threw |-> name]
IsThrown(v) == DOMAIN v = {"threw"}

IsString(v) == DOMAIN v = {"string"}

\* !v
Falsy(v) ==
  \/ v = Null
  \/ v = Undefined
  \/ v = JsNumber(0)
  \/ v = JsString(<< >>)
  \/ v = JsBoolean(FALSE)

\* v.name as a number: a property the value does not have is undefined, and
\* undefined is NaN in arithmetic
Prop(v, name) == IF name \in DOMAIN v THEN v[name] ELSE NaN

Sq(x) == RMul(x, x)

distance(a, b) ==
  Sqrt(RSum(<< Sq(RSub(Prop(a, "avgRepetition"), Prop(b, "avgRepetition"))),
               Sq(RSub(Prop(a, "avgVocabDiversity"), Prop(b, "avgVocabDiversity"))),
               Sq(RSub(Prop(a, "genericRate"), Prop(b, "genericRate"))),
               Sq(RSub(Prop(a, "transitionRate"), Prop(b, "transitionRate"))),
               Sq(RSub(Prop(a, "uniformity"), Prop(b, "uniformity"))) >>))

\* the test with && in place of ||
missingProfile_both(h, a) == Falsy(h) /\ Falsy(a)

\* line 186: !human || !ai
missingProfile(h, a) == Falsy(h) \/ Falsy(a)

\* the confidence taken from the signed margin
confidenceOf_signed(margin) == clamp01S(SDiv(margin, R(25, 100)))

\* line 203: clamp01(Math.abs(margin) / 0.25)
confidenceOf(margin) == clamp01S(SDiv(SAbs(margin), R(25, 100)))

\* the band with its bound included
inUncertaintyBand_inclusive(margin) == ~SGt(SAbs(margin), R(6, 100))

\* line 206: Math.abs(margin) < 0.06
inUncertaintyBand(margin) == SLt(SAbs(margin), R(6, 100))

\* the classification with no confidence inside the band
classifyByDistance_zeroInBand(dHuman, dAI, margin) ==
  IF inUncertaintyBand(margin)
    THEN [label |-> "uncertain", confidence |-> SZero,
          dHuman |-> dHuman, dAI |-> dAI,
          note |-> "Close to both profiles (uncertain)."]
    ELSE [label |-> IF SGt(margin, Zero) THEN "human" ELSE "ai",
          confidence |-> confidenceOf(margin),
          dHuman |-> dHuman, dAI |-> dAI,
          note |-> "Closer to one reference profile (not proof)."]

\* lines 196-222, with the distances computed
classifyByDistance(dHuman, dAI, margin) ==
  IF inUncertaintyBand(margin)
    THEN [label |-> "uncertain", confidence |-> confidenceOf(margin),
          dHuman |-> dHuman, dAI |-> dAI,
          note |-> "Close to both profiles (uncertain)."]
    ELSE [label |-> IF SGt(margin, Zero) THEN "human" ELSE "ai",
          confidence |-> confidenceOf(margin),
          dHuman |-> dHuman, dAI |-> dAI,
          note |-> "Closer to one reference profile (not proof)."]

\* no property of null or undefined can be read
Unreadable(v) == v = Null \/ v = Undefined

classifyWithCalibration(features, h, a) ==
  IF missingProfile(h, a)
    THEN [label |-> "uncertain", confidence |-> SZero,
          dHuman |-> Null, dAI |-> Null,
          note |-> "Missing calibration profiles. Visit /calibrate."]
  ELSE IF Unreadable(features) \/ Unreadable(h) \/ Unreadable(a)
    THEN Threw("TypeError")
    ELSE classifyByDistance(distance(features, h), distance(features, a),
                            SSub(distance(features, a), distance(features, h)))

-----------------------------------------------------------------------------
(* Citation checks (src/lib/citations.ts).                                 *)

IsWordChar(c) == c \in Letters \/ c \in Capitals \/ c \in Digits \/ c = "_"

\* \b between the positions i and i + 1 of s (0 <= i <= Len(s)): a word
\* character on exactly one side
WordBoundary(s, i) ==
  (i >= 1 /\ IsWordChar(s[i])) # (i < Len(s) /\ IsWordChar(s[i + 1]))

\* /\b(w)\b/i.test(s) for a lower-case literal w
hasWord(s, w) ==
  \E i \in 1..(Len(s) - Len(w) + 1) :
    /\ toLowerCaseChar(s[i]) = w[1]
    /\ toLowerCase(SubSeq(s, i, i + Len(w) - 1)) = w
    /\ WordBoundary(s, i - 1)
    /\ WordBoundary(s, i + Len(w) - 1)

sectionWords ==
  << <<"w","o","r","k","s"," ","c","i","t","e","d">>,
     <<"r","e","f","e","r","e","n","c","e","s">>,
     <<"b","i","b","l","i","o","g","r","a","p","h","y">> >>

hasWorksCitedSection(t) ==
  \E k \in 1..Len(sectionWords) : hasWord(t, sectionWords[k])

AllDigits(s, i, j) == \A k \in i..j : s[k] \in Digits

\* the first position > i of s that holds ")" (0 if none)
closeAfter(s, i) ==
  LET qs == {q \in (i + 1)..Len(s) : s[q] = ")"}
  IN  IF qs = {} THEN 0 ELSE CHOOSE q \in qs : \A r \in qs : q <= r

\* /\([^)]+\d{2,4}[^)]*\)|\([A-Z][a-zA-Z-]+[^)]*\)|\[\d+\]/.test(line)
hasInlineCitation(line) ==
  \/ \E p \in 1..Len(line) :
       /\ line[p] = "("
       /\ \E i \in (p + 2)..(closeAfter(line, p) - 2) :
            line[i] \in Digits /\ line[i + 1] \in Digits
  \/ \E p \in 1..(Len(line) - 3) :
       /\ line[p] = "("
       /\ line[p + 1] \in Capitals
       /\ (line[p + 2] \in Letters \/ line[p + 2] \in Capitals \/ line[p + 2] = "-")
       /\ closeAfter(line, p + 2) # 0
  \/ \E p \in 1..Len(line) :
       /\ line[p] = "["
       /\ \E q \in (p + 2)..Len(line) :
            line[q] = "]" /\ AllDigits(line, p + 1, q - 1)

\* the first position >= i of s that holds a line feed (Len(s) + 1 if none)
LineEnd(s, i) ==
  CHOOSE j \in i..(Len(s) + 1) :
    /\ j = Len(s) + 1 \/ s[j] = "\n"
    /\ \A k \in i..(j - 1) : s[k] # "\n"

\* the trimmed, non-empty lines of s from position i on (a carriage return
\* before the line feed goes with the trimming)
RECURSIVE linesFrom(_, _)
linesFrom(s, i) ==
  LET j == LineEnd(s, i)
      l == trim(SubSeq(s, i, j - 1))
  IN  (IF Len(l) > 0 THEN << l >> ELSE << >>)
        \o (IF j > Len(s) THEN << >> ELSE linesFrom(s, j + 1))

splitLines(t) == linesFrom(t, 1)

\* /\b(19|20)\d{2}\b/.test(line)
hasYear(line) ==
  \E i \in 1..(Len(line) - 3) :
    /\ WordBoundary(line, i - 1)
    /\ SubSeq(line, i, i + 1) \in { <<"1","9">>, <<"2","0">> }
    /\ line[i + 2] \in Digits /\ line[i + 3] \in Digits
    /\ WordBoundary(line, i + 3)

\* the positions at which a match of \d+(\.\d+)?%? that starts at i can end
numberEnds(s, i) ==
  LET ints == {e \in i..Len(s) : AllDigits(s, i, e)}
      decs == {f \in i..Len(s) :
                 \E e \in ints : /\ e + 2 <= f
                                 /\ s[e + 1] = "."
                                 /\ AllDigits(s, e + 2, f)}
      nums == ints \cup decs
  IN  nums \cup {e + 1 : e \in {x \in nums : x < Len(s) /\ s[x + 1] = "%"}}

quantityWords ==
  << <<"m","i","l","l","i","o","n">>,
     <<"b","i","l","l","i","o","n">>,
     <<"p","e","r","c","e","n","t">>,
     <<"%">> >>

\* /\b\d+(\.\d+)?%?\b/.test(line) || /\b(million|billion|percent|%)\b/i.test(line)
hasNumber(line) ==
  \/ \E i \in 1..Len(line) :
       /\ line[i] \in Digits
       /\ WordBoundary(line, i - 1)
       /\ \E e \in numberEnds(line, i) : WordBoundary(line, e)
  \/ \E k \in 1..Len(quantityWords) : hasWord(line, quantityWords[k])

\* /"[^"]{10,}"/.test(line)
hasLongQuote(line) ==
  \E p \in 1..Len(line) :
    /\ line[p] = "\""
    /\ \E q \in (p + 11)..Len(line) :
         /\ line[q] = "\""
         /\ \A k \in (p + 1)..(q - 1) : line[k] # "\""

MissingSection ==
  [type |-> "missing_citation",
   message |-> "No Works Cited / References section detected.",
   suggestion |-> "Add a Works Cited (MLA) or References (APA) section."]

UncitedStatistic ==
  [type |-> "missing_citation",
   message |-> "A statistic or year appears without a citation.",
   suggestion |-> "Add an in-text citation after this sentence."]

UncitedQuote ==
  [type |-> "needs_quote",
   message |-> "A direct quote appears without a citation.",
   suggestion |-> "Add an in-text citation immediately after the quote."]

\* the issues pushed for one line
lineIssues(line) ==
  (IF (hasYear(line) \/ hasNumber(line)) /\ ~hasInlineCitation(line)
        /\ Len(line) >= 10
     THEN << UncitedStatistic >> ELSE << >>)
    \o (IF hasLongQuote(line) /\ ~hasInlineCitation(line)
          THEN << UncitedQuote >> ELSE << >>)

RECURSIVE issuesOf(_)
issuesOf(lines) ==
  IF lines = << >> THEN << >> ELSE lineIssues(lines[1]) \o issuesOf(Tail(lines))

\* the list returned without the filter
dedupe_keepsAll(issues, i) == issues

\* issues.filter((v, i, a) => a.findIndex(t => t.message === v.message) === i)
\* from index i on
RECURSIVE dedupe(_, _)
dedupe(issues, i) ==
  IF i > Len(issues) THEN << >>
  ELSE (IF \A j \in 1..(i - 1) : issues[j].message # issues[i].message
          THEN << issues[i] >> ELSE << >>)
         \o dedupe(issues, i + 1)

findCitationIssues(t) ==
  dedupe((IF ~hasWorksCitedSection(t) THEN << MissingSection >> ELSE << >>)
           \o issuesOf(splitLines(t)), 1)

-----------------------------------------------------------------------------
(* The request handler POST /api/analyze (src/app/api/analyze/route.ts).   *)

\* a request body that is not JSON
Unparseable == [unparseable |-> TRUE]

\* a JSON object as far as the handler reads it: its property text
\* (Undefined when the object has no such property)
JsObject(t) == [object |-> TRUE, text |-> t]

\* await req.json()
reqJson(b) == IF b = Unparseable THEN Threw("SyntaxError") ELSE b

\* const { text } = v
destructureText(v) ==
  IF v = Null \/ v = Undefined THEN Threw("TypeError")
  ELSE IF "text" \in DOMAIN v THEN v.text
  ELSE Undefined

\* text.trim().split(/\s+/).length: one more than the number of runs of
\* white space in the trimmed text
wordCount(t) ==
  Cardinality({i \in 1..Len(trim(t)) :
                 /\ IsSpace(trim(t)[i])
                 /\ (i = 1 \/ ~IsSpace(trim(t)[i - 1]))}) + 1

WordLimit == 150

DefaultThreshold == R(35, 100)

\* line 8: !text || typeof text !== "string" || text.trim().length === 0
rejected(t) ==
  Falsy(t) \/ ~IsString(t) \/ Len(trim(t.string)) = 0

\* lines 16-39
mergedResult(t, analysis, citations) ==
  [overall |->
     [originalityRisk |-> IF wordCount(t) > WordLimit THEN "medium" ELSE "low",
      citationQuality |-> IF wordCount(t) > WordLimit THEN "medium" ELSE "high",
      aiLikelihood |->
        IF RGt(analysis.aiModel.overallAiScore, R(68, 100)) THEN "high"
        ELSE IF RGt(analysis.aiModel.overallAiScore, R(52, 100)) THEN "medium"
        ELSE "low"],
   plagiarism |-> << >>,
   citations |-> citations,
   aiSignals |-> << [name |-> "ai_model_score",
                     value |-> analysis.aiModel.overallAiScore] >>,
   aiSentenceSignals |-> analysis.aiSentenceSignals,
   aiModel |-> analysis.aiModel]

\* lines 14-41: the text is analysed once and the answer built from it
accepted(t) ==
  CHOOSE out \in
    {[response |->
        [status |-> 200,
         json |-> mergedResult(t, analysis, findCitationIssues(t))],
      calls |-> << "analyzeTextForAI", "findCitationIssues" >>] :
       analysis \in {analyzeTextForAI(t, DefaultThreshold)}} : TRUE

\* lines 8-41, for the value t of the body's text
respond(t) ==
  IF rejected(t)
    THEN [response |-> [status |-> 400, json |-> [error |-> "No text provided"]],
          calls |-> << >>]
    ELSE accepted(t.string)

\* the handler: what it answers, or the exception that leaves it, and the
\* core functions it invoked
handle(b) ==
  IF IsThrown(reqJson(b))
    THEN [response |-> reqJson(b), calls |-> << >>]
  ELSE IF IsThrown(destructureText(reqJson(b)))
    THEN [response |-> destructureText(reqJson(b)), calls |-> << >>]
  ELSE respond(destructureText(reqJson(b)))

-----------------------------------------------------------------------------
(* The calibration page's profile store (src/unnamed/part_001).            *)

KEY_HUMAN == "calibration_human_v1"
KEY_AI == "calibration_ai_v1"
Keys == {KEY_HUMAN, KEY_AI}

\* A stored string is kept as what it says: JsonText(v) is the JSON text of
\* the value v, JsString(chars) a text that is no JSON; Null is kept for a
\* key under which nothing is stored.
JsonText(v) == [jsonText |-> v]
IsJsonText(raw) == DOMAIN raw = {"jsonText"}

\* a number as JSON.stringify writes it: null for NaN and the infinities
jsonNumber(x) == IF x[2] = 0 THEN Null ELSE x

\* JSON.stringify(profile)
JSONstringify(p) ==
  JsonText([label |-> p.label,
            features |->
              [avgRepetition |-> jsonNumber(p.features.avgRepetition),
               avgVocabDiversity |-> jsonNumber(p.features.avgVocabDiversity),
               genericRate |-> jsonNumber(p.features.genericRate),
               transitionRate |-> jsonNumber(p.features.transitionRate),
               uniformity |-> jsonNumber(p.features.uniformity)],
            createdAt |-> p.createdAt])

\* JSON.parse(raw): the value, or the SyntaxError it throws
JSONparse(raw) ==
  IF IsJsonText(raw) THEN raw.jsonText ELSE Threw("SyntaxError")

\* localStorage.getItem(key)
getItem(store, key) == store[key]

\* saveProfile writing the profile under every key
saveProfile_everyKey(store, key, profile) ==
  [k \in DOMAIN store |-> JSONstringify(profile)]

\* localStorage.setItem(key, JSON.stringify(profile))
saveProfile(store, key, profile) ==
  [store EXCEPT ![key] = JSONstringify(profile)]

\* localStorage.removeItem(key)
removeItem(store, key) == [store EXCEPT ![key] = Null]

\* loadProfile without its try and catch
loadProfile_uncaught(store, key) ==
  IF Falsy(getItem(store, key)) THEN Null
  ELSE JSONparse(getItem(store, key))

\* lines 19-27
loadProfile(store, key) ==
  IF Falsy(getItem(store, key)) THEN Null
  ELSE IF IsThrown(JSONparse(getItem(store, key))) THEN Null
  ELSE JSONparse(getItem(store, key))

\* lines 54-55 and 62-63: the profile of a sample text
profileOf(label, sample, now) ==
  [label |-> label,
   features |-> analyzeTextForAI(sample, DefaultThreshold).aiModel.features,
   createdAt |-> now]

-----------------------------------------------------------------------------
(* The analysis run: a document drawn from a bounded set of texts is        *)
(* analysed with a threshold drawn from a set of thresholds.               *)

MaxAtoms == 3

\* The pieces the sample documents are built from: a letter and its capital,
\* white space, a terminator, a transition word, a word that is both a
\* generic phrase and a transition, and a generic phrase.
Atoms ==
  { <<"a">>, <<"A">>, <<" ">>, <<".">>,
    <<"h","o","w","e","v","e","r">>,
    <<"o","v","e","r","a","l","l">>,
    <<"v","a","r","i","o","u","s">> }

RECURSIVE Flatten(_)
Flatten(ss) == IF ss = << >> THEN << >> ELSE ss[1] \o Flatten(Tail(ss))

Texts == {Flatten(a) : a \in UNION {[1..n -> Atoms] : n \in 0..MaxAtoms}}

Thresholds == { R(0, 1), R(1, 10), R(35, 100), R(1, 1) }

IdleClassifier ==
  /\ probe = Null /\ human = Null /\ ai = Null /\ verdict = NoResult

IdleRoute ==
  /\ body = NoResult /\ response = NoResult /\ calls = << >>

IdleCalibrate ==
  /\ storage = << >> /\ humanText = << >> /\ aiText = << >>
  /\ humanSaved = Null /\ aiSaved = Null /\ mounted = FALSE /\ clock = 0

IdleAnalysis ==
  /\ text = << >> /\ sensitivity = R(35, 100) /\ result = NoResult

Init ==
  /\ text \in Texts
  /\ sensitivity \in Thresholds
  /\ result = NoResult
  /\ IdleClassifier /\ IdleRoute /\ IdleCalibrate

Analyze ==
  /\ result' = analyzeTextForAI(text, sensitivity)
  /\ UNCHANGED << text, sensitivity, classifierVars, routeVars, calibrateVars >>

Next == Analyze

Spec == Init /\ [][Next]_vars

-----------------------------------------------------------------------------
(* The classification run: a probe vector and two reference profiles, each *)
(* a sample vector or null, are classified.                                *)

Hundredths(r, v, g, t, u) ==
  [avgRepetition |-> R(r, 100), avgVocabDiversity |-> R(v, 100),
   genericRate |-> R(g, 100), transitionRate |-> R(t, 100),
   uniformity |-> R(u, 100)]

\* offsets, in hundredths, that put distances below, on and above the
\* bounds 0.06 and 0.25 (3-4-5 and 0.06 exactly, 0.25 exactly)
Samples ==
  {Hundredths(50 + x, 50, 0, 0, 50 + y) :
     x \in {0, 3, 4, 6, 25}, y \in {0, 3, 4, 6, 25}}
    \cup {Hundredths(10, 90, 0, 0, 50), Hundredths(30, 70, 100, 50, 90)}

InitClassify ==
  /\ probe \in Samples
  /\ human \in Samples \cup {Null}
  /\ ai \in Samples \cup {Null}
  /\ verdict = NoResult
  /\ IdleAnalysis /\ IdleRoute /\ IdleCalibrate

Classify ==
  /\ verdict' = classifyWithCalibration(probe, human, ai)
  /\ UNCHANGED << probe, human, ai, analysisVars, routeVars, calibrateVars >>

NextClassify == Classify

SpecClassify == InitClassify /\ [][NextClassify]_vars

-----------------------------------------------------------------------------
(* The request run: a request whose body is drawn from a bounded set        *)
(* arrives at POST /api/analyze and is answered.                           *)

MaxRouteAtoms == 3

\* The pieces the request texts are built from: white space, a line feed, a
\* short sentence, a line with a year and a statistic, an inline citation,
\* a section heading, a quotation and a transition word.
RouteAtoms ==
  { <<" ">>, <<"\n">>, <<"a",".">>,
    <<"U","p"," ","1","2",".","5","%"," ","i","n"," ","1","9","9","9">>,
    <<"(","S","m","i","t","h"," ","2","0","2","0",")">>,
    <<"R","e","f","e","r","e","n","c","e","s">>,
    <<"\"","t","o"," ","b","e"," ","o","r"," ","n","o","t","\"">>,
    <<"h","o","w","e","v","e","r">> }

\* a text of more than WordLimit words: "a a ... a."
LongText ==
  [i \in 1..(2 * WordLimit + 2) |->
     IF i = 2 * WordLimit + 2 THEN "." ELSE IF i % 2 = 1 THEN "a" ELSE " "]

RouteTexts ==
  {Flatten(a) : a \in UNION {[1..n -> RouteAtoms] : n \in 0..MaxRouteAtoms}}
    \cup {LongText}

\* request bodies: no JSON at all; JSON that is no object; objects without
\* text; objects whose text is no string; objects whose text is a string
Bodies ==
  { Unparseable, Null, JsNumber(7), JsString(<<"a",".">>), JsBoolean(TRUE),
    JsArray(<< >>) }
    \cup {JsObject(t) : t \in {Undefined, Null, JsNumber(0), JsNumber(7),
                                JsBoolean(FALSE), JsBoolean(TRUE),
                                JsArray(<< >>), JsObject(Undefined)}}
    \cup {JsObject(JsString(t)) : t \in RouteTexts}

InitRoute ==
  /\ body \in Bodies
  /\ response = NoResult
  /\ calls = << >>
  /\ IdleAnalysis /\ IdleClassifier /\ IdleCalibrate

POST ==
  /\ \E out \in {handle(body)} :
       /\ response' = out.response
       /\ calls' = out.calls
  /\ UNCHANGED << body, analysisVars, classifierVars, calibrateVars >>

NextRoute == POST

SpecRoute == InitRoute /\ [][NextRoute]_vars

-----------------------------------------------------------------------------
(* The calibration run: the page is opened over a store that holds         *)
(* anything, samples are typed, profiles are saved and cleared, and time   *)
(* passes.                                                                 *)

MaxClock == 1

\* the sample texts typed into the two text areas: nothing, white space, a
\* plain sentence and a sentence of repeated words with a transition
CalibrationTexts ==
  { << >>, <<" ">>, <<"a",".">>,
    <<"h","o","w","e","v","e","r"," ","a"," ","a"," ","h","o","w","e","v","e","r",".">> }

\* what a key may hold when the page is opened: nothing, the empty string,
\* text that is no JSON, the JSON texts of null, of a number and of an
\* empty object, and a profile saved earlier
StoredContents ==
  { Null, JsString(<< >>), JsString(<<"{","o","o","p","s">>),
    JsonText(Null), JsonText(JsNumber(7)), JsonText([object |-> TRUE]),
    JsonText([label |-> "human", features |-> Hundredths(10, 90, 0, 0, 50),
              createdAt |-> 0]) }

InitCalibrate ==
  /\ storage \in [Keys -> StoredContents]
  /\ humanText = << >> /\ aiText = << >>
  /\ humanSaved = Null /\ aiSaved = Null
  /\ mounted = FALSE
  /\ clock = 0
  /\ IdleAnalysis /\ IdleClassifier /\ IdleRoute

\* lines 35-38: the effect of the first render
Mount ==
  /\ ~mounted
  /\ mounted' = TRUE
  /\ humanSaved' = loadProfile(storage, KEY_HUMAN)
  /\ aiSaved' = loadProfile(storage, KEY_AI)
  /\ UNCHANGED << storage, humanText, aiText, clock,
                  analysisVars, classifierVars, routeVars >>

\* line 106: onChange of the human text area
setHumanText(t) ==
  /\ mounted
  /\ humanText' = t
  /\ UNCHANGED << storage, aiText, humanSaved, aiSaved, mounted, clock,
                  analysisVars, classifierVars, routeVars >>

\* line 126: onChange of the AI text area
setAiText(t) ==
  /\ mounted
  /\ aiText' = t
  /\ UNCHANGED << storage, humanText, humanSaved, aiSaved, mounted, clock,
                  analysisVars, classifierVars, routeVars >>

\* lines 52-58
saveHuman ==
  /\ mounted
  /\ IF Len(trim(humanText)) = 0
       THEN UNCHANGED << storage, humanSaved >>
       ELSE \E p \in {profileOf("human", humanText, clock)} :
              /\ storage' = saveProfile(storage, KEY_HUMAN, p)
              /\ humanSaved' = p
  /\ UNCHANGED << humanText, aiText, aiSaved, mounted, clock,
                  analysisVars, classifierVars, routeVars >>

\* lines 60-66
saveAI ==
  /\ mounted
  /\ IF Len(trim(aiText)) = 0
       THEN UNCHANGED << storage, aiSaved >>
       ELSE \E p \in {profileOf("ai", aiText, clock)} :
              /\ storage' = saveProfile(storage, KEY_AI, p)
              /\ aiSaved' = p
  /\ UNCHANGED << humanText, aiText, humanSaved, mounted, clock,
                  analysisVars, classifierVars, routeVars >>

\* lines 68-73
clearAll ==
  /\ mounted
  /\ storage' = removeItem(removeItem(storage, KEY_HUMAN), KEY_AI)
  /\ humanSaved' = Null
  /\ aiSaved' = Null
  /\ UNCHANGED << humanText, aiText, mounted, clock,
                  analysisVars, classifierVars, routeVars >>

\* Date.now() moves on
Tick ==
  /\ clock < MaxClock
  /\ clock' = clock + 1
  /\ UNCHANGED << storage, humanText, aiText, humanSaved, aiSaved, mounted,
                  analysisVars, classifierVars, routeVars >>

NextCalibrate ==
  \/ Mount
  \/ \E t \in CalibrationTexts : setHumanText(t)
  \/ \E t \in CalibrationTexts : setAiText(t)
  \/ saveHuman
  \/ saveAI
  \/ clearAll
  \/ Tick

SpecCalibrate == InitCalibrate /\ [][NextCalibrate]_vars

-----------------------------------------------------------------------------
(* The document run: a document made of whole sentences, drawn from a pool *)
(* of sentences, is analysed with the default threshold.                   *)

MaxSentences == 3

\* Sentences without a word, of one word, of one word thrice, of two words
\* twice with a transition, and of two words with a generic phrase.
SentencePool ==
  { <<"-",".">>,
    <<"a",".">>,
    <<"a"," ","a"," ","a",".">>,
    <<"h","o","w","e","v","e","r"," ","a"," ","a"," ","h","o","w","e","v","e","r",".">>,
    <<"v","a","r","i","o","u","s"," ","a",".">> }

\* a sentence of twenty-one words, two of them distinct, with a generic
\* phrase and two transitions: "however overall overall ... overall."
RepetitiveSentence ==
  <<"h","o","w","e","v","e","r">>
    \o Flatten([i \in 1..20 |-> <<" ","o","v","e","r","a","l","l">>])
    \o <<".">>

\* the sentences with one space between them
Join(sentences) ==
  Flatten([i \in 1..Len(sentences) |->
             IF i = 1 THEN sentences[i] ELSE <<" ">> \o sentences[i]])

Documents ==
  {Join(d) : d \in UNION {[1..n -> SentencePool] : n \in 0..MaxSentences}}
    \cup {RepetitiveSentence}

InitDocument ==
  /\ text \in Documents
  /\ sensitivity = DefaultThreshold
  /\ result = NoResult
  /\ IdleClassifier /\ IdleRoute /\ IdleCalibrate

SpecDocument == InitDocument /\ [][Next]_vars

-----------------------------------------------------------------------------
(* Properties of the analysis.                                             *)

Analyzed == result # NoResult

In01(x) == RLe(Zero, x) /\ RLe(x, One)

FeatureNames ==
  {"avgRepetition", "avgVocabDiversity", "genericRate", "transitionRate",
   "uniformity"}

\* the spans (start, end, sentence) of a list of sentence signals
SpanSet(signals) ==
  {[sentence |-> signals[i].sentence, start |-> signals[i].start,
    end |-> signals[i].end] : i \in 1..Len(signals)}

\* C1: for every text and threshold, overallAiScore and each of the five
\* components of the feature vector returned by analyzeTextForAI lie in the
\* closed interval [0, 1].
C1_Bounded ==
  Analyzed =>
    /\ In01(result.aiModel.overallAiScore)
    /\ \A f \in FeatureNames : In01(result.aiModel.features[f])

\* a document of two sentences whose overall score and uniformity lie
\* strictly inside the interval
C1_Witness ==
  /\ Analyzed
  /\ result.aiModel.sentenceCount >= 2
  /\ RLt(Zero, result.aiModel.overallAiScore)
  /\ RLt(result.aiModel.overallAiScore, One)
  /\ RLt(Zero, result.aiModel.features.uniformity)
  /\ RLt(result.aiModel.features.uniformity, One)

\* C2: a text that segments into zero sentences is analysed without a
\* division by zero (no NaN, no Infinity) and yields sentenceCount = 0,
\* overallAiScore = 0, avgSentenceLength = 0, all five feature components 0
\* and an empty list of flagged sentences, whatever the threshold.
C2_EmptyDocument ==
  (Analyzed /\ splitSentencesWithOffsets(text) = << >>) =>
    /\ result.aiModel.sentenceCount = 0
    /\ result.aiModel.overallAiScore = Zero
    /\ result.aiModel.avgSentenceLength = Zero
    /\ \A f \in FeatureNames : result.aiModel.features[f] = Zero
    /\ result.aiSentenceSignals = << >>

\* a non-empty text without sentences (white space or terminators only) has
\* been analysed
C2_Witness ==
  /\ Analyzed
  /\ Len(text) >= 2
  /\ \E i \in 1..Len(text) : IsTerminator(text[i])
  /\ splitSentencesWithOffsets(text) = << >>
  /\ result.aiModel.sentenceCount = 0

\* C6: for a fixed text and thresholds t1 <= t2, the sentences flagged at t2
\* are among those flagged at t1, so neither the number of flagged sentences
\* nor flaggedRatio grows when the threshold is raised.
C6_MonotoneFlagging ==
  Analyzed =>
    \A mine \in {documentStats(text, sensitivity)} :
      \A t2 \in Thresholds \ {sensitivity} :
        \A other \in {documentStats(text, t2)} :
          /\ RLe(sensitivity, t2) =>
               /\ SpanSet(other.aiSentenceSignals)
                    \subseteq SpanSet(result.aiSentenceSignals)
               /\ Len(other.aiSentenceSignals) <= Len(result.aiSentenceSignals)
               /\ RLe(other.flaggedRatio, mine.flaggedRatio)
          /\ RLe(t2, sensitivity) =>
               /\ SpanSet(result.aiSentenceSignals)
                    \subseteq SpanSet(other.aiSentenceSignals)
               /\ Len(result.aiSentenceSignals) <= Len(other.aiSentenceSignals)
               /\ RLe(mine.flaggedRatio, other.flaggedRatio)

\* raising the threshold drops some, but not all, of the flagged sentences
C6_Witness ==
  /\ Analyzed
  /\ \E t2 \in Thresholds :
       \E other \in {analyzeTextForAI(text, t2).aiSentenceSignals} :
           /\ RLt(sensitivity, t2)
           /\ Len(other) > 0
           /\ Len(other) < Len(result.aiSentenceSignals)

\* none of the five sub-feature thresholds fires for the scored sentence x
NoSubFeatureFires(x) ==
  /\ ~RGt(x.rep, R(35, 100))
  /\ ~RLt(x.vdiv, R(55, 100))
  /\ ~RGt(x.uniformLenSignal, R(8, 10))
  /\ ~(x.generic > 0)
  /\ ~RGt(x.trans, R(5, 10))

\* C7: every entry of aiSentenceSignals has a non-empty list of reasons; the
\* entry of a flagged sentence for which none of the five sub-feature
\* thresholds fires has exactly the fallback reason.
C7_ReasonsNeverEmpty ==
  Analyzed =>
    LET scored == documentStats(text, sensitivity).scored
    IN  /\ \A i \in 1..Len(result.aiSentenceSignals) :
             Len(result.aiSentenceSignals[i].reasons) > 0
        /\ \A j \in 1..Len(scored) :
             (RGe(scored[j].score, sensitivity) /\ NoSubFeatureFires(scored[j])) =>
               \E i \in 1..Len(result.aiSentenceSignals) :
                 /\ result.aiSentenceSignals[i].start = scored[j].start
                 /\ result.aiSentenceSignals[i].reasons = << ReasonFallback >>

\* a flagged sentence carries the fallback reason beside a flagged sentence
\* that carries reasons of its own
C7_Witness ==
  /\ Analyzed
  /\ \E i, k \in 1..Len(result.aiSentenceSignals) :
       /\ result.aiSentenceSignals[i].reasons = << ReasonFallback >>
       /\ ReasonFallback \notin
            {result.aiSentenceSignals[k].reasons[m] :
               m \in 1..Len(result.aiSentenceSignals[k].reasons)}

\* what a run returns beside the flagged list and the echoed threshold
ModelSansThreshold(r) ==
  [overallAiScore |-> r.aiModel.overallAiScore,
   avgSentenceLength |-> r.aiModel.avgSentenceLength,
   sentenceCount |-> r.aiModel.sentenceCount,
   features |-> r.aiModel.features]

\* the feature vector, the sentence count, the mean sentence length and
\* every sentence's score and reasons of the run `other` (with the sentence
\* scores otherScored) are those of the run in result (with the sentence
\* scores myScored)
SameFeatureMath(other, otherScored, myScored) ==
  /\ other.aiModel.features = result.aiModel.features
  /\ other.aiModel.sentenceCount = result.aiModel.sentenceCount
  /\ other.aiModel.avgSentenceLength = result.aiModel.avgSentenceLength
  /\ otherScored = myScored
  /\ \A i \in 1..Len(other.aiSentenceSignals) :
       \A k \in 1..Len(result.aiSentenceSignals) :
         other.aiSentenceSignals[i].start = result.aiSentenceSignals[k].start
           => other.aiSentenceSignals[i] = result.aiSentenceSignals[k]

\* C8 as stated: two runs on one text with different thresholds agree on the
\* feature vector, sentenceCount, avgSentenceLength and every sentence's
\* score and reasons, and the threshold affects only which sentences are in
\* the flagged list (so everything returned beside that list and the echoed
\* threshold is the same).
C8_OnlyFlaggedListChanges ==
  Analyzed =>
    \A mine \in {documentStats(text, sensitivity)} :
      \A t2 \in Thresholds :
        \A d \in {documentStats(text, t2)} :
          \A other \in {analyzeTextForAI(text, t2)} :
            /\ SameFeatureMath(other, d.scored, mine.scored)
            /\ ModelSansThreshold(other) = ModelSansThreshold(result)

\* C8 amended: the runs agree on the feature vector, sentenceCount,
\* avgSentenceLength and every sentence's score and reasons; the threshold
\* affects which sentences are flagged and, through flaggedRatio, the
\* overallAiScore: apart from the flagged list, the echoed threshold and
\* overallAiScore the returned values are equal, and overallAiScore differs
\* only when the number of flagged sentences differs.
C8_FeatureMathIndependent ==
  Analyzed =>
    \A mine \in {documentStats(text, sensitivity)} :
      \A t2 \in Thresholds \ {sensitivity} :
        \A d \in {documentStats(text, t2)} :
          \A other \in {output(d, t2)} :
            /\ SameFeatureMath(other, d.scored, mine.scored)
            /\ [ModelSansThreshold(other) EXCEPT !.overallAiScore = Zero]
                 = [ModelSansThreshold(result) EXCEPT !.overallAiScore = Zero]
            /\ Len(other.aiSentenceSignals) = Len(result.aiSentenceSignals)
                 => other.aiModel.overallAiScore = result.aiModel.overallAiScore

\* two thresholds flag different sentences of one document and give
\* different overall scores
C8_Witness ==
  /\ Analyzed
  /\ \E t2 \in Thresholds :
       \E other \in {analyzeTextForAI(text, t2)} :
           /\ t2 # sensitivity
           /\ result.aiModel.sentenceCount >= 2
           /\ SpanSet(other.aiSentenceSignals) # SpanSet(result.aiSentenceSignals)
           /\ other.aiModel.overallAiScore # result.aiModel.overallAiScore

\* C14: the spans returned by splitSentencesWithOffsets lie within the text
\* with 0 <= start < end <= length, their starts increase strictly, each
\* ends no later than the next one starts, and none has a sentence text
\* that is empty or only white space.
C14_SpansOrdered ==
  Analyzed =>
    \A spans \in {splitSentencesWithOffsets(text)} :
      \A i \in 1..Len(spans) :
        /\ 0 <= spans[i].start
        /\ spans[i].start < spans[i].end
        /\ spans[i].end <= Len(text)
        /\ \E k \in 1..Len(spans[i].sentence) : ~IsSpace(spans[i].sentence[k])
        /\ i < Len(spans) =>
             /\ spans[i].start < spans[i + 1].start
             /\ spans[i].end <= spans[i + 1].start

\* a text of two sentences has been analysed, the second starting where the
\* first ends and reaching the end of the text
C14_Witness ==
  /\ Analyzed
  /\ \E spans \in {splitSentencesWithOffsets(text)} :
       /\ Len(spans) = 2
       /\ spans[1].end = spans[2].start
       /\ spans[2].end = Len(text)

\* the sentences of the analysed document with what aiSentenceScore
\* returned for them
Scored ==
  LET scored == documentStats(text, sensitivity).scored
  IN  {scored[i] : i \in 1..Len(scored)}

\* raw as aiSentenceScore computes it for the scored sentence x
RawOf(x) == rawScore(x.rep, x.vdiv, x.uniformLenSignal, x.generic, x.trans)

\* raw with every sub-feature at its largest value: the sum of the five
\* coefficients
WeightSum == rawScore(One, Zero, One, 1, One)

\* every sub-feature of the scored sentence x is at its largest value
AtMaximum(x) ==
  /\ x.rep = One /\ x.vdiv = Zero /\ x.uniformLenSignal = One
  /\ x.generic = 1 /\ x.trans = One

\* C12: the normalizer 4.5 is the sum of the five coefficients, so raw is at
\* most 4.5 for every sentence (clamp01 never cuts raw / 4.5), and the score
\* is 1 only for a sentence with every sub-feature at its maximum.
C12_NormalizerIsWeightSum ==
  Analyzed =>
    /\ \A x \in Scored :
         /\ RLe(RawOf(x), R(45, 10))
         /\ x.score = One => AtMaximum(x)
    /\ WeightSum = R(45, 10)

\* what the code does instead: the coefficients add up to 4.75, raw lies
\* between 0 and 4.75, and the score is raw / 4.5 cut at 1
C12_RawWithinWeightSum ==
  Analyzed =>
    /\ WeightSum = R(475, 100)
    /\ \A x \in Scored :
         /\ RLe(Zero, RawOf(x))
         /\ RLe(RawOf(x), WeightSum)
         /\ x.score = RMin(RDiv(RawOf(x), R(45, 10)), One)

\* a sentence whose raw exceeds 4.5 has been scored: its score is 1 by the
\* clamp, with repetition and uniformity below their maxima
C12_Witness ==
  /\ Analyzed
  /\ \E x \in Scored :
       /\ RGt(RawOf(x), R(45, 10))
       /\ x.score = One
       /\ ~AtMaximum(x)

\* the reasons of the scored sentence x
Carries(x, reason) == \E k \in 1..Len(x.reasons) : x.reasons[k] = reason

\* For every sentence repetition and vocabDiversity add up to 1, as exact
\* values and as the doubles the code holds (rep is 1 - vdiv, and the sum of
\* the two doubles rounds to 1), and a sentence with the reason "Low
\* vocabulary diversity" has the reason "Repetitive word patterns".
SentencesSumToOne ==
  \A x \in Scored :
    /\ RAdd(x.rep, x.vdiv) = One
    /\ Len(words(x.sentence)) = 0 => (x.rep = One /\ x.vdiv = Zero)
    /\ \A v \in {vocabDiversity64(x.sentence)} :
         /\ repetition64(x.sentence) = f64sub(f64(1), v)
         /\ f64add(f64sub(f64(1), v), v) = f64(1)
    /\ Carries(x, "Low vocabulary diversity")
         => Carries(x, "Repetitive word patterns")

\* C16: repetition and vocabDiversity add up to exactly 1 for every
\* sentence, so avgRepetition + avgVocabDiversity = 1 for every document
\* with a sentence, as the numbers the code computes, and the reason "Low
\* vocabulary diversity" comes with "Repetitive word patterns".
C16_SumIsOne ==
  Analyzed =>
    /\ SentencesSumToOne
    /\ result.aiModel.sentenceCount >= 1 =>
         \A f \in {features64(text)} :
           f64add(f.avgRepetition, f.avgVocabDiversity) = f64(1)

\* C16 with the sums of the means taken exactly: the per-sentence relations
\* hold as they are, and avgRepetition + avgVocabDiversity = 1 when no
\* addition rounds.
C16_SumIsOneExactly ==
  Analyzed =>
    /\ SentencesSumToOne
    /\ result.aiModel.sentenceCount >= 1 =>
         RAdd(result.aiModel.features.avgRepetition,
              result.aiModel.features.avgVocabDiversity) = One

\* a document of three sentences, one of which carries both reasons, has
\* been analysed, and its two means, as doubles, do not add up to 1
C16_Witness ==
  /\ Analyzed
  /\ result.aiModel.sentenceCount = 3
  /\ \E x \in Scored :
       /\ Carries(x, "Low vocabulary diversity")
       /\ Carries(x, "Repetitive word patterns")
  /\ \A f \in {features64(text)} :
       f64add(f.avgRepetition, f.avgVocabDiversity) # f64(1)

\* the documents made of the sentences of the analysed text in another
\* order
Reorderings ==
  LET sents == splitSentencesWithOffsets(text)
  IN  {Join([i \in 1..Len(sents) |-> sents[p[i]].sentence]) :
         p \in Permutations(1..Len(sents))}

\* the flagged sentences without their offsets
FlaggedSet(signals) ==
  {[sentence |-> signals[i].sentence, score |-> signals[i].score,
    reasons |-> signals[i].reasons] : i \in 1..Len(signals)}

\* the analysis of the text t returns the aggregates of the analysed
\* document and flags the same sentences
SameAggregates(t) ==
  \A other \in {analyzeTextForAI(t, sensitivity)} :
    /\ other.aiModel = result.aiModel
    /\ FlaggedSet(other.aiSentenceSignals) = FlaggedSet(result.aiSentenceSignals)

\* C13: for every order of the sentences of a document, analyzeTextForAI
\* returns the same overallAiScore, avgSentenceLength, sentenceCount and
\* feature components, as the numbers the code computes, and flags the
\* same set of sentences.
C13_OrderIndependent ==
  Analyzed =>
    \A t \in Reorderings :
      /\ SameAggregates(t)
      /\ features64(t) = features64(text)

\* C13 with the sums taken exactly: for every order of the sentences the
\* aggregates are the same when no addition rounds, and the same set of
\* sentences is flagged.
C13_OrderIndependentExactly ==
  Analyzed => \A t \in Reorderings : SameAggregates(t)

\* a document of three sentences, flagged in part, has been analysed whose
\* avgVocabDiversity as a double depends on the order of its sentences
C13_Witness ==
  /\ Analyzed
  /\ result.aiModel.sentenceCount = 3
  /\ Len(result.aiSentenceSignals) \in {1, 2}
  /\ \E t \in Reorderings :
       /\ t # text
       /\ SameAggregates(t)
       /\ features64(t).avgVocabDiversity # features64(text).avgVocabDiversity

-----------------------------------------------------------------------------
(* Properties of the classifier.                                           *)

Classified == verdict # NoResult

\* dAI - dHuman of the verdict
VerdictMargin == SSub(verdict.dAI, verdict.dHuman)

\* C3: with the human profile null, the AI profile null, or both, the
\* classifier returns label uncertain, confidence 0 and both distances null,
\* whatever the feature vector and the other profile.
C3_MissingProfile ==
  (Classified /\ (human = Null \/ ai = Null)) =>
    /\ ~IsThrown(verdict)
    /\ verdict.label = "uncertain"
    /\ verdict.confidence = SZero
    /\ verdict.dHuman = Null
    /\ verdict.dAI = Null

\* a classification with exactly one of the profiles missing
C3_Witness ==
  /\ Classified
  /\ human = Null
  /\ ai # Null

\* C4: with both profiles present and margin = dAI - dHuman, the label is
\* uncertain exactly when |margin| < 0.06; otherwise it is human when
\* margin > 0 and ai when margin < 0; a margin of exactly 0.06 gives human
\* and one of exactly -0.06 gives ai.
C4_UncertaintyBand ==
  (Classified /\ human # Null /\ ai # Null) =>
    /\ verdict.label = "uncertain"
         <=> (SLt(VerdictMargin, R(6, 100)) /\ SGt(VerdictMargin, R(-6, 100)))
    /\ verdict.label = "human"
         <=> ~SLt(VerdictMargin, R(6, 100))
    /\ verdict.label = "ai"
         <=> ~SGt(VerdictMargin, R(-6, 100))

\* a margin of exactly 0.06 has been classified as human
C4_Witness ==
  /\ Classified /\ human # Null /\ ai # Null
  /\ ~SLt(VerdictMargin, R(6, 100))
  /\ ~SGt(VerdictMargin, R(6, 100))
  /\ verdict.label = "human"

Mirror(label) ==
  IF label = "human" THEN "ai" ELSE IF label = "ai" THEN "human" ELSE label

\* C5: exchanging two non-null profiles leaves the confidence unchanged,
\* exchanges dHuman and dAI and mirrors the label (human <-> ai, uncertain
\* stays).
C5_SwapSymmetry ==
  (Classified /\ human # Null /\ ai # Null) =>
    \A swapped \in {classifyWithCalibration(probe, ai, human)} :
      /\ swapped.confidence = verdict.confidence
      /\ swapped.dHuman = verdict.dAI
      /\ swapped.dAI = verdict.dHuman
      /\ swapped.label = Mirror(verdict.label)

\* a verdict "human" with a confidence strictly between 0 and 1 whose
\* exchange gives "ai"
C5_Witness ==
  /\ Classified /\ human # Null /\ ai # Null
  /\ verdict.label = "human"
  /\ SGt(verdict.confidence, Zero) /\ SLt(verdict.confidence, One)
  /\ classifyWithCalibration(probe, ai, human).label = "ai"

\* x = y for two numbers of the classifier
SEq(x, y) ==
  IF y = SZero THEN ~SIsNaN(x) /\ ~SLt(x, Zero) /\ ~SGt(x, Zero)
  ELSE x = y

\* min(|margin| / 0.25, 1)
MarginOverQuarter ==
  IF ~SLt(SAbs(VerdictMargin), R(25, 100)) THEN Sqrt(One)
  ELSE SDiv(SAbs(VerdictMargin), R(25, 100))

\* C17: with both profiles present the confidence is min(|margin| / 0.25, 1)
\* under every label: a verdict human or ai has a confidence of at least
\* 0.24, a verdict uncertain has a confidence below 0.24 that is 0 only when
\* the margin is 0; null distances, with confidence 0, come only from a
\* missing profile.
C17_ConfidenceUnderEveryLabel ==
  Classified =>
    /\ (human # Null /\ ai # Null) =>
         /\ SEq(verdict.confidence, MarginOverQuarter)
         /\ verdict.label \in {"human", "ai"}
              => ~SLt(verdict.confidence, R(24, 100))
         /\ verdict.label = "uncertain"
              => /\ SLt(verdict.confidence, R(24, 100))
                 /\ SEq(verdict.confidence, SZero) <=> SEq(VerdictMargin, SZero)
    /\ (verdict.dHuman = Null \/ verdict.dAI = Null)
         => (human = Null \/ ai = Null)

\* a verdict uncertain between two present profiles with a confidence
\* strictly between 0 and 0.24
C17_Witness ==
  /\ Classified /\ human # Null /\ ai # Null
  /\ verdict.label = "uncertain"
  /\ SGt(verdict.confidence, Zero)
  /\ SLt(verdict.confidence, R(24, 100))
  /\ SEq(verdict.confidence, MarginOverQuarter)

-----------------------------------------------------------------------------
(* Properties of the request handler.                                      *)

Answered == response # NoResult

\* the text field of a request body: Undefined when the body has none
TextOf(b) == IF "text" \in DOMAIN b THEN b.text ELSE Undefined

\* a text that is missing, is not a string or is empty after trimming
Unacceptable(t) == ~IsString(t) \/ trim(t.string) = << >>

Answers(status) == "status" \in DOMAIN response /\ response.status = status

BothCoreCalls == << "analyzeTextForAI", "findCitationIssues" >>

\* the response carries what the two core functions return for the text t
CarriesCoreResults(t) ==
  \A analysis \in {analyzeTextForAI(t, DefaultThreshold)} :
    /\ response.json.aiModel = analysis.aiModel
    /\ response.json.aiSentenceSignals = analysis.aiSentenceSignals
    /\ response.json.aiSignals[1].value = analysis.aiModel.overallAiScore
    /\ response.json.citations = findCitationIssues(t)

\* C9: the handler answers 400, without invoking analyzeTextForAI or
\* findCitationIssues, whenever the text field of the request body is
\* missing, is not a string or is empty after trimming; for every other
\* text it invokes both and answers with the merged result.
C9_RejectsInvalidText ==
  Answered =>
    IF Unacceptable(TextOf(body))
      THEN Answers(400) /\ calls = << >>
      ELSE /\ calls = BothCoreCalls
           /\ Answers(200)
           /\ CarriesCoreResults(TextOf(body).string)

\* C9 for the bodies the handler gets to read: when the body is JSON other
\* than null, the handler answers 400 without a call of the core for an
\* unacceptable text, and with the merged result otherwise; for a body
\* that is null or no JSON nothing of the core is invoked either.
C9_ReadableBodies ==
  Answered =>
    IF body = Unparseable \/ body = Null
      THEN calls = << >>
      ELSE C9_RejectsInvalidText

\* a request whose body is the JSON value null has been handled: an
\* exception left the handler and no answer 400 was given
C9_Witness ==
  /\ Answered
  /\ body = Null
  /\ IsThrown(response)
  /\ ~Answers(400)
  /\ calls = << >>

\* the issues of the answer to an accepted request
Citations == response.json.citations

\* the numbers of the lines of the request text for which the loop pushes
\* the issue
LinesPushing(issue) ==
  LET lines == splitLines(body.text.string)
  IN  {i \in 1..Len(lines) :
         \E k \in 1..Len(lineIssues(lines[i])) : lineIssues(lines[i])[k] = issue}

Least(S) == CHOOSE i \in S : \A j \in S : i <= j

\* the line-triggered issues in the order in which the lines first push
\* them (within one line the statistic comes before the quote)
InOrderOfFirstPush ==
  \A stat \in {LinesPushing(UncitedStatistic)}, quote \in {LinesPushing(UncitedQuote)} :
    Citations =
      (IF hasWorksCitedSection(body.text.string) THEN << >> ELSE << MissingSection >>)
      \o (IF stat = {} /\ quote = {} THEN << >>
          ELSE IF quote = {} THEN << UncitedStatistic >>
          ELSE IF stat = {} THEN << UncitedQuote >>
          ELSE IF Least(stat) <= Least(quote)
            THEN << UncitedStatistic, UncitedQuote >>
            ELSE << UncitedQuote, UncitedStatistic >>)

\* C15: the list findCitationIssues returns holds no two issues with the
\* same message, so at most three issues, and holds them in the order of
\* their first occurrence: the missing-section issue first when there is
\* one, then the issues of the lines in the order in which the lines first
\* trigger them.
C15_IssuesDistinctInOrder ==
  (Answered /\ Answers(200)) =>
    /\ \A i, j \in 1..Len(Citations) :
         i # j => Citations[i].message # Citations[j].message
    /\ Len(Citations) <= 3
    /\ InOrderOfFirstPush

\* the answer to a text without a reference section, whose first line holds
\* a quotation and whose second line holds a statistic, lists the three
\* issues with the quotation before the statistic
C15_Witness ==
  /\ Answered /\ Answers(200)
  /\ Citations = << MissingSection, UncitedQuote, UncitedStatistic >>
  /\ Len(splitLines(body.text.string)) = 2

-----------------------------------------------------------------------------
(* Properties of the profile store.                                        *)

\* nothing is stored under the key, or what is stored is no JSON
NotParseable(raw) == raw = Null \/ ~IsJsonText(raw)

\* v.name (Undefined for a property the value does not have)
Get(v, name) == IF name \in DOMAIN v THEN v[name] ELSE Undefined

\* what a caller hands to the classifier for a loaded profile p: the
\* profile, or its feature vector
ClassifierArguments(p) ==
  IF p = Null THEN {Null} ELSE {p, Get(p, "features")}

ClassifiedVector == Hundredths(50, 50, 0, 0, 50)
OtherProfiles == {Null, Hundredths(56, 50, 0, 0, 50)}

\* the verdicts on ClassifiedVector with the loaded profile p as the human
\* or the AI profile
VerdictsWith(p) ==
  UNION {{classifyWithCalibration(ClassifiedVector, arg, other),
          classifyWithCalibration(ClassifiedVector, other, arg)} :
           arg \in ClassifierArguments(p), other \in OtherProfiles}

SavedFor(key) == IF key = KEY_HUMAN THEN humanSaved ELSE aiSaved

\* C10: when nothing is stored under a calibration key, or what is stored
\* does not parse, loadProfile returns null and raises nothing (so the page
\* holds null for that profile once it has loaded it), and a classification
\* that receives that null returns label uncertain with confidence 0;
\* whatever is stored, neither loadProfile nor a classification that
\* receives what it returned raises an exception.
C10_UnreadableProfileIsAbsent ==
  \A key \in Keys :
    \A p \in {loadProfile(storage, key)} :
      /\ ~IsThrown(p)
      /\ ~IsThrown(SavedFor(key))
      /\ NotParseable(storage[key]) =>
           /\ p = Null
           /\ SavedFor(key) = Null
      /\ \A v \in VerdictsWith(p) :
           /\ ~IsThrown(v)
           /\ p = Null => (v.label = "uncertain" /\ v.confidence = SZero)

\* the page has loaded its profiles over a store whose human key holds text
\* that is no JSON and whose AI key holds a saved profile: the human
\* profile is null, the AI profile is not, and the classification is
\* uncertain with confidence 0
C10_Witness ==
  /\ mounted
  /\ storage[KEY_HUMAN] = JsString(<<"{","o","o","p","s">>)
  /\ IsJsonText(storage[KEY_AI])
  /\ humanSaved = Null
  /\ aiSaved # Null
  /\ "features" \in DOMAIN aiSaved
  /\ classifyWithCalibration(ClassifiedVector, humanSaved, aiSaved.features).label
       = "uncertain"

\* the text of a text area is empty or white space
Blank(t) == Len(trim(t)) = 0

\* a step that types into a text area, loads the profiles on the first
\* render or moves the clock: it is none of saveHuman, saveAI and clearAll,
\* each of which leaves these alone
OtherStep ==
  \/ humanText' # humanText
  \/ aiText' # aiText
  \/ mounted' # mounted
  \/ clock' # clock

\* what a step of the page does to the store and to what loadProfile
\* returns afterwards
StoreStep ==
  IF OtherStep THEN storage' = storage
  ELSE
    /\ (~Blank(humanText) /\ saveHuman) =>
         /\ loadProfile(storage', KEY_HUMAN) = profileOf("human", humanText, clock)
         /\ storage'[KEY_AI] = storage[KEY_AI]
    /\ (~Blank(aiText) /\ saveAI) =>
         /\ loadProfile(storage', KEY_AI) = profileOf("ai", aiText, clock)
         /\ storage'[KEY_HUMAN] = storage[KEY_HUMAN]
    /\ ((Blank(humanText) /\ saveHuman) \/ (Blank(aiText) /\ saveAI)) =>
         /\ storage' = storage
         /\ humanSaved' = humanSaved
         /\ aiSaved' = aiSaved
    /\ clearAll =>
         /\ loadProfile(storage', KEY_HUMAN) = Null
         /\ loadProfile(storage', KEY_AI) = Null
    /\ storage' # storage => (saveHuman \/ saveAI \/ clearAll)

\* C11: a save with text that is not blank makes loadProfile return, for its
\* label, the profile it wrote, and leaves what is stored for the other
\* label as it was; a save with blank text changes nothing; clearAll makes
\* loadProfile return null for both labels; no other step of the page
\* touches the store.  So after any sequence of saves and clears the profile
\* loaded for a label is the one of its most recent save, or null when a
\* clearAll came after it.
C11_LastSaveWins == [][StoreStep]_vars

\* both profiles have been saved, the AI profile first and the human profile
\* after the clock moved on, and each key holds the profile of its own save
C11_Witness ==
  /\ mounted
  /\ clock = 1
  /\ ~Blank(humanText) /\ ~Blank(aiText)
  /\ loadProfile(storage, KEY_AI) = profileOf("ai", aiText, 0)
  /\ loadProfile(storage, KEY_HUMAN) = profileOf("human", humanText, 1)
  /\ humanSaved = profileOf("human", humanText, 1)

=============================================================================
